---- MODULE Spec2Model ----
(***************************************************************************)
(* A model of the RSS reader in src/main.py: the date normalizer           *)
(* (parse_date), the content sanitizer (clean_summary), the per-feed       *)
(* filter (filter_entries_since), the feed fetcher (fetch_single_feed),    *)
(* the orchestrator (fetch_feeds_impl) and the markdown renderer.          *)
(*                                                                         *)
(* Conventions.                                                            *)
(*   - An instant (a naive UTC datetime) is an integer number of hours     *)
(*     counted from datetime.min, which is DateMin.                        *)
(*   - Python's None is the empty sequence and a present value v is <<v>>, *)
(*     so that an optional value is always a sequence.                     *)
(*   - A date string is a record [layout, wall, off, lenient]: the textual *)
(*     layout it is written in, the wall-clock time it spells, the UTC     *)
(*     offset it spells (hours) and what feedparser's lenient parser makes *)
(*     of it.  The empty string has layout "".                             *)
(*   - A summary is a sequence of one-character strings.                   *)
(***************************************************************************)
EXTENDS Integers, Sequences, FiniteSets, TLC

VARIABLES
    feeds_cache,     \* _feeds_cache: category -> list of feed URLs
    responses,       \* what each feed URL of the world answers to session.get
    category,        \* argument of fetch_feeds
    limit,           \* argument of fetch_feeds
    per_feed_limit,  \* argument of fetch_feeds
    since_date,      \* argument of fetch_feeds (None or a date string)
    pc,              \* position of fetch_feeds_impl: "call", "gather", "done"
    since_dt,        \* local since_dt of fetch_feeds_impl (None before it is set)
    feed_urls,       \* local feed_urls of fetch_feeds_impl
    feed_results,    \* per task: [done, value] (value: the list the task returned)
    order,           \* indices of the tasks in the order they completed
    result,          \* the returned object (None before the return)
    summary_in,      \* sanitizer run: the raw summary
    cleaned,         \* sanitizer run: clean_summary(summary_in), None before
    recleaned        \* sanitizer run: clean_summary of that, None before

vars == << feeds_cache, responses, category, limit, per_feed_limit, since_date,
           pc, since_dt, feed_urls, feed_results, order, result,
           summary_in, cleaned, recleaned >>

fetchVars == << feeds_cache, responses, category, limit, per_feed_limit,
                since_date, pc, since_dt, feed_urls, feed_results, order, result >>

cleanVars == << summary_in, cleaned, recleaned >>

(***************************************************************************)
(* Bounds of the model.                                                    *)
(***************************************************************************)
\* feed URLs configured for the category
MaxFeeds == 2
\* entries in the documents of all feeds of the category together
MaxEntries == 2
\* fragments a raw summary is put together from
MaxPieces == 4

(***************************************************************************)
(* Python values.                                                          *)
(***************************************************************************)
None == << >>

Some(v) == << v >>

Min(a, b) == IF a <= b THEN a ELSE b

Max(a, b) == IF a >= b THEN a ELSE b

\* seq[:n], for any integer n: a negative n counts from the end.
PySlice(seq, n) ==
    IF n >= 0 THEN SubSeq(seq, 1, Min(n, Len(seq)))
    ELSE SubSeq(seq, 1, Max(Len(seq) + n, 0))

\* datetime.min, the key fetch_feeds_impl sorts a date-less article with
DateMin == 0

\* timedelta(days=7), in hours
SevenDays == 168

(***************************************************************************)
(* Date strings and parse_date.                                            *)
(***************************************************************************)
DATE_FORMATS ==
    << "%a, %d %b %Y %H:%M:%S %Z",
       "%a, %d %b %Y %H:%M:%S %z",
       "%Y-%m-%dT%H:%M:%S%z",
       "%Y-%m-%dT%H:%M:%SZ",
       "%Y-%m-%d %H:%M:%S",
       "%Y-%m-%d" >>

DateStr(layout, wall, off, lenient) ==
    [layout |-> layout, wall |-> wall, off |-> off, lenient |-> lenient]

EmptyStr == DateStr("", 0, 0, None)

\* A string is falsy exactly when it is empty.
Truthy(s) == s.layout # ""

\* Whether the format's offset directive %z is there: strptime then returns
\* an aware datetime.  %Z reads a zone name and leaves the datetime naive.
HasOffsetDirective(fmt) ==
    fmt \in {"%a, %d %b %Y %H:%M:%S %z", "%Y-%m-%dT%H:%M:%S%z"}

\* Whether datetime.strptime(s, fmt) accepts s.  %z also reads a literal "Z".
StrptimeMatches(s, fmt) ==
    \/ s.layout = fmt
    \/ fmt = "%Y-%m-%dT%H:%M:%S%z" /\ s.layout = "%Y-%m-%dT%H:%M:%SZ"

\* datetime.strptime(s, fmt), then the normalisation of lines 84-85: an aware
\* datetime is moved to UTC and made naive, a naive one is kept as written.
StrptimeUtc(s, fmt) ==
    IF HasOffsetDirective(fmt) THEN s.wall - s.off ELSE s.wall

RECURSIVE TryFormats(_, _)
TryFormats(s, i) ==
    IF i > Len(DATE_FORMATS) THEN s.lenient
    ELSE IF StrptimeMatches(s, DATE_FORMATS[i])
         THEN Some(StrptimeUtc(s, DATE_FORMATS[i]))
         ELSE TryFormats(s, i + 1)

parse_date(date_str) ==
    IF ~Truthy(date_str) THEN None ELSE TryFormats(date_str, 1)

(***************************************************************************)
(* Stable sort, newest first: list.sort(key=..., reverse=True) keeps the   *)
(* original order of elements whose keys are equal.  The elements are      *)
(* pairs <<item, key>>.                                                    *)
(***************************************************************************)
RECURSIVE InsertDesc(_, _)
InsertDesc(sorted, p) ==
    IF sorted = << >> THEN << p >>
    ELSE IF Head(sorted)[2] >= p[2]
         THEN << Head(sorted) >> \o InsertDesc(Tail(sorted), p)
         ELSE << p >> \o sorted

RECURSIVE SortDescStable(_)
SortDescStable(pairs) ==
    IF pairs = << >> THEN << >>
    ELSE InsertDesc(SortDescStable(SubSeq(pairs, 1, Len(pairs) - 1)),
                    pairs[Len(pairs)])

(***************************************************************************)
(* clean_summary, on sequences of characters.                              *)
(***************************************************************************)
\* A lone surrogate: the one character str.encode('utf-8') cannot encode.
Surrogate == "\\ud800"

Whitespace == {" ", "\t", "\n", "\r", "\f"}

Contains(s, c) == \E i \in 1..Len(s) : s[i] = c

\* text.encode('utf-8', errors='ignore').decode('utf-8')
Utf8Roundtrip(s) == SelectSeq(s, LAMBDA c : c # Surrogate)

\* The named character references of html.entities.html5 that the model's
\* alphabet can spell, as <<name, replacement>>; the names html5 also lists
\* without their semicolon are there in both forms.
Html5 ==
    { << <<"a", "m", "p", ";">>, <<"&">> >>, << <<"a", "m", "p">>, <<"&">> >>,
      << <<"l", "t", ";">>, <<"<">> >>,      << <<"l", "t">>, <<"<">> >>,
      << <<"g", "t", ";">>, <<">">> >>,      << <<"g", "t">>, <<">">> >> }

InHtml5(name) == \E e \in Html5 : e[1] = name

Html5Value(name) == (CHOOSE e \in Html5 : e[1] = name)[2]

\* [^\t\n\f <&#;], the characters of a reference's name
NameChar(c) == c \notin {"\t", "\n", "\f", " ", "<", "&", "#", ";"}

\* The length of the run [^\t\n\f <&#;]{1,32} that starts at s[i].
RECURSIVE NameRun(_, _, _)
NameRun(s, i, n) ==
    IF n < 32 /\ i + n <= Len(s) /\ NameChar(s[i + n])
    THEN NameRun(s, i, n + 1)
    ELSE n

\* The text of the match of [^\t\n\f <&#;]{1,32};? at s[i], << >> when none.
CharrefToken(s, i) ==
    LET n == NameRun(s, i, 0)
        semi == IF n > 0 /\ i + n <= Len(s) /\ s[i + n] = ";" THEN 1 ELSE 0
    IN  SubSeq(s, i, i + n + semi - 1)

\* html._replace_charref for a named reference: the whole name, else its
\* longest prefix that html5 lists (of two characters at least) followed by
\* the rest, else the text unchanged.
RECURSIVE ReplacePrefix(_, _)
ReplacePrefix(tok, x) ==
    IF x < 2 THEN <<"&">> \o tok
    ELSE IF InHtml5(SubSeq(tok, 1, x))
         THEN Html5Value(SubSeq(tok, 1, x)) \o SubSeq(tok, x + 1, Len(tok))
         ELSE ReplacePrefix(tok, x - 1)

ReplaceCharref(tok) ==
    IF InHtml5(tok) THEN Html5Value(tok) ELSE ReplacePrefix(tok, Len(tok) - 1)

\* html.unescape: one left-to-right pass; what a replacement produces is not
\* read again.
RECURSIVE UnescapeFrom(_, _)
UnescapeFrom(s, i) ==
    IF i > Len(s) THEN << >>
    ELSE LET tok == IF s[i] = "&" THEN CharrefToken(s, i + 1) ELSE << >>
         IN  IF tok # << >>
             THEN ReplaceCharref(tok) \o UnescapeFrom(s, i + 1 + Len(tok))
             ELSE << s[i] >> \o UnescapeFrom(s, i + 1)

\* html.escape in the place of html.unescape.
RECURSIVE HtmlEscape(_)
HtmlEscape(s) ==
    IF s = << >> THEN << >>
    ELSE (CASE Head(s) = "&" -> <<"&", "a", "m", "p", ";">>
            [] Head(s) = "<" -> <<"&", "l", "t", ";">>
            [] Head(s) = ">" -> <<"&", "g", "t", ";">>
            [] OTHER -> << Head(s) >>) \o HtmlEscape(Tail(s))

HtmlUnescape(s) == IF ~Contains(s, "&") THEN s ELSE UnescapeFrom(s, 1)

\* The index of the first ">" at or after i, 0 when there is none.
RECURSIVE FirstGt(_, _)
FirstGt(s, i) ==
    IF i > Len(s) THEN 0
    ELSE IF s[i] = ">" THEN i ELSE FirstGt(s, i + 1)

\* re.compile(r'<[^>]+>').sub('', s)
RECURSIVE StripTagsFrom(_, _)
StripTagsFrom(s, i) ==
    IF i > Len(s) THEN << >>
    ELSE LET j == IF s[i] = "<" THEN FirstGt(s, i + 1) ELSE 0
         IN  IF j >= i + 2
             THEN StripTagsFrom(s, j + 1)
             ELSE << s[i] >> \o StripTagsFrom(s, i + 1)

StripTags(s) == StripTagsFrom(s, 1)

StartsWithAt(s, i, word) ==
    /\ i + Len(word) - 1 <= Len(s)
    /\ SubSeq(s, i, i + Len(word) - 1) = word

\* re.search(r'<(script|style|iframe)', s, re.IGNORECASE); the model's
\* alphabet has lower-case letters only.
HasComplexTag(s) ==
    \E i \in 1..Len(s) :
        /\ s[i] = "<"
        /\ \/ StartsWithAt(s, i + 1, <<"s", "c", "r", "i", "p", "t">>)
           \/ StartsWithAt(s, i + 1, <<"s", "t", "y", "l", "e">>)
           \/ StartsWithAt(s, i + 1, <<"i", "f", "r", "a", "m", "e">>)

\* BeautifulSoup(s, "html.parser").get_text(): the text outside the tags.
\* The parser is a library; the model keeps what the sanitizer relies on,
\* that the tags are gone, and takes the rest of the text as it stands.
SoupGetText(s) == StripTags(s)

\* ' '.join(text.split())
RECURSIVE SkipWhitespace(_)
SkipWhitespace(s) ==
    IF s # << >> /\ Head(s) \in Whitespace THEN SkipWhitespace(Tail(s)) ELSE s

RECURSIVE WordLen(_, _)
WordLen(s, n) ==
    IF n < Len(s) /\ s[n + 1] \notin Whitespace THEN WordLen(s, n + 1) ELSE n

RECURSIVE JoinSplit(_)
JoinSplit(s) ==
    LET t == SkipWhitespace(s)
    IN  IF t = << >> THEN << >>
        ELSE LET n == WordLen(t, 0)
                 rest == JoinSplit(SubSeq(t, n + 1, Len(t)))
             IN  IF rest = << >> THEN SubSeq(t, 1, n)
                 ELSE SubSeq(t, 1, n) \o <<" ">> \o rest

clean_summary(summary) ==
    IF summary = << >> THEN << >>
    ELSE LET unescaped == HtmlUnescape(summary)
         IN  IF ~Contains(unescaped, "<") THEN Utf8Roundtrip(unescaped)
             ELSE LET text == IF ~HasComplexTag(unescaped)
                              THEN StripTags(unescaped)
                              ELSE SoupGetText(unescaped)
                  IN  Utf8Roundtrip(JoinSplit(text))

(***************************************************************************)
(* Feed entries (feedparser's entry objects) and filter_entries_since.     *)
(* An entry is a record [title, link, summary, published_parsed,           *)
(* published, pubDate, updated]; an attribute the entry lacks reads as     *)
(* getattr's default: None for published_parsed, '' for a string.          *)
(***************************************************************************)
\* getattr(entry, 'published', '') or getattr(entry, 'pubDate', '') or
\* getattr(entry, 'updated', ''): the first string that is not empty.
PublishedStr(entry) ==
    IF Truthy(entry.published) THEN entry.published
    ELSE IF Truthy(entry.pubDate) THEN entry.pubDate
    ELSE entry.updated

\* entry_dt of lines 111-120: the native parsed time when the entry has one,
\* else parse_date of the date string.
EntryDt(entry) ==
    IF entry.published_parsed # None THEN entry.published_parsed
    ELSE parse_date(PublishedStr(entry))

\* The list `filtered` after the loop of lines 109-130: pairs <<entry, dt>>.
Filtered(entries, since) ==
    LET dated == [i \in 1..Len(entries) |-> << entries[i], EntryDt(entries[i]) >>]
        kept == SelectSeq(dated, LAMBDA p : p[2] # None /\ p[2][1] >= since)
    IN  [i \in 1..Len(kept) |-> << kept[i][1], kept[i][2][1] >>]

filter_entries_since(entries, since, perFeedLimit) ==
    LET sorted == SortDescStable(Filtered(entries, since))
        top == PySlice(sorted, perFeedLimit)
    IN  [i \in 1..Len(top) |-> top[i][1]]

(***************************************************************************)
(* fetch_single_feed.  A response is [outcome, entries]: outcome "200" or  *)
(* "500" (the HTTP status, entries being what feedparser reads from the    *)
(* body) or "raised" (session.get or response.text() raised: an            *)
(* asyncio.TimeoutError or any other exception; each of the two handlers   *)
(* of lines 185-190 returns the empty list).                               *)
(***************************************************************************)
Article(entry, url) ==
    [title        |-> entry.title,
     link         |-> entry.link,
     summary      |-> clean_summary(entry.summary),
     published    |-> PublishedStr(entry),
     source       |-> url,
     published_dt |-> parse_date(PublishedStr(entry))]

\* fetch_single_feed without the test of the HTTP status.
fetch_single_feed_any_status(response, url, since, perFeedLimit) ==
    IF response.outcome = "raised" THEN << >>
    ELSE LET entries == filter_entries_since(response.entries, since, perFeedLimit)
         IN  [i \in 1..Len(entries) |-> Article(entries[i], url)]

fetch_single_feed(response, url, since, perFeedLimit) ==
    IF response.outcome = "raised" THEN << >>
    ELSE IF response.outcome # "200" THEN << >>
    ELSE LET entries == filter_entries_since(response.entries, since, perFeedLimit)
         IN  [i \in 1..Len(entries) |-> Article(entries[i], url)]

(***************************************************************************)
(* fetch_feeds_impl after the gather, and articles_to_markdown.            *)
(***************************************************************************)
\* The results in the order the tasks completed in, as asyncio.as_completed
\* would hand them over.
GatherAsCompleted(results, completed) ==
    [i \in 1..Len(results) |->
        IF i <= Len(completed) THEN results[completed[i]].value ELSE << >>]

\* The value asyncio.gather returns: the tasks' results in the order of the
\* awaitables it was given, whatever the order they completed in.
GatherResults(results, completed) ==
    [i \in 1..Len(results) |-> results[i].value]

RECURSIVE Extend(_, _)
Extend(lists, i) ==
    IF i > Len(lists) THEN << >> ELSE lists[i] \o Extend(lists, i + 1)

\* A date-less article given the newest key, datetime.max, not the oldest.
SortKeyNoneNewest(article) ==
    IF article.published_dt # None THEN article.published_dt[1] ELSE 87649415

\* x.get('published_dt') or datetime.min
SortKey(article) ==
    IF article.published_dt # None THEN article.published_dt[1] ELSE DateMin

\* article.pop('published_dt', None)
PopSortKey(article) ==
    [title     |-> article.title,
     link      |-> article.link,
     summary   |-> article.summary,
     published |-> article.published,
     source    |-> article.source]

\* Lines 259-276 without the slice of line 279.
LimitedArticlesNoLimit(gathered, lim) ==
    LET all_articles == Extend(gathered, 1)
        keyed == [i \in 1..Len(all_articles) |->
                    << all_articles[i], SortKey(all_articles[i]) >>]
        sorted == SortDescStable(keyed)
    IN  [i \in 1..Len(sorted) |-> PopSortKey(sorted[i][1])]

\* Lines 259-279: combine, sort newest first, drop the key, limit.
LimitedArticles(gathered, lim) ==
    LET all_articles == Extend(gathered, 1)
        keyed == [i \in 1..Len(all_articles) |->
                    << all_articles[i], SortKey(all_articles[i]) >>]
        sorted == SortDescStable(keyed)
        popped == [i \in 1..Len(sorted) |-> PopSortKey(sorted[i][1])]
    IN  PySlice(popped, lim)

\* One line per article; the lines are joined by "\n" in the code.
articles_to_markdown(articles) ==
    IF articles = << >> THEN << "No recent articles found." >>
    ELSE [i \in 1..Len(articles) |->
            << "- **[", articles[i].title, "](", articles[i].link, ")** (",
               articles[i].published, ")\n  ",
               PySlice(articles[i].summary, 250), "..." >>]

Failure(message) == [error |-> message]

\* An empty article list reported as an error.
SuccessUnlessEmpty(articles) ==
    IF articles = << >> THEN Failure(<< "No recent articles found." >>)
    ELSE [markdown |-> articles_to_markdown(articles), articles |-> articles]

Success(articles) ==
    [markdown |-> articles_to_markdown(articles), articles |-> articles]

\* feeds_by_cat.get(category, [])
ConfiguredUrls(config, cat) ==
    IF cat \in DOMAIN config THEN config[cat] ELSE << >>

\* datetime.strptime(since_date, "%Y-%m-%d"): None stands for the exception.
ParseSinceDate(s) ==
    IF StrptimeMatches(s, "%Y-%m-%d") THEN Some(StrptimeUtc(s, "%Y-%m-%d"))
    ELSE None

(***************************************************************************)
(* The inputs the model draws from.                                        *)
(***************************************************************************)
Entry(title, native, published, pubDate, updated, summary) ==
    [title            |-> title,
     link             |-> << "https://example.org/", title >>,
     summary          |-> summary,
     published_parsed |-> native,
     published        |-> published,
     pubDate          |-> pubDate,
     updated          |-> updated]

\* "Wed, 03 Jan 0001 01:00:00 +0100", which is 0001-01-03 00:00 UTC
Rfc822Plus1 == DateStr("%a, %d %b %Y %H:%M:%S %z", 49, 1, None)

\* "0001-01-04T00:00:00.500Z": no format of DATE_FORMATS reads the fraction,
\* and the lenient parser is not there to read it either
FractionalIso == DateStr("other", 72, 0, None)

\* "0001-01-01", which parses to datetime.min
FirstDay == DateStr("%Y-%m-%d", 0, 0, None)

\* "0001-01-04 00:00:00"
SimpleDay4 == DateStr("%Y-%m-%d %H:%M:%S", 72, 0, None)

\* "yesterday"
NotADate == DateStr("other", 0, 0, None)

\* "0001-01-03"
Day3 == DateStr("%Y-%m-%d", 48, 0, None)

\* "13/31/2024"
MalformedDay == DateStr("other", 0, 0, None)

EntryPool ==
    { \* dated by its pubDate string alone
      Entry("A", None, EmptyStr, Rfc822Plus1, EmptyStr,
            <<"&", "a", "m", "p", ";">>),
      \* has a native parsed time; its published string reads as no date
      Entry("B", Some(72), FractionalIso, EmptyStr, EmptyStr,
            <<"<", "b", ">", "x">>),
      \* has a native parsed time and a published string that reads as another
      Entry("C", Some(48), FirstDay, EmptyStr, EmptyStr, << >>),
      \* no native parsed time; published reads as no date, updated as one
      Entry("D", None, NotADate, EmptyStr, SimpleDay4, <<"d">>) }

RECURSIVE EntrySeqs(_)
EntrySeqs(n) ==
    IF n = 0 THEN { << >> }
    ELSE LET shorter == EntrySeqs(n - 1)
         IN  shorter \cup { Append(es, e) : es \in shorter, e \in EntryPool }

Response(outcome, entries) == [outcome |-> outcome, entries |-> entries]

\* The answers one URL can give when at most n entries are left to hand out.
Responses(n) ==
    { Response(o, es) : o \in {"200", "500"}, es \in EntrySeqs(n) }
        \cup { Response("raised", << >>) }

\* The answers of k URLs with at most n entries in all.
RECURSIVE Worlds(_, _)
Worlds(k, n) ==
    IF k = 0 THEN { << >> }
    ELSE UNION { { << r >> \o w : w \in Worlds(k - 1, n - Len(r.entries)) } :
                 r \in Responses(n) }

Url(i) == << "https://feeds.example.org/", i >>

Categories == {"Example", "Empty", "DoesNotExist"}

\* feeds.yaml: "Example" lists k feed URLs, "Empty" lists none.
Config(k) ==
    [c \in {"Example", "Empty"} |->
        IF c = "Example" THEN [i \in 1..k |-> Url(i)] ELSE << >>]

Limits == {-1, 1, 2}

PerFeedLimits == {-1, 1}

SinceDates == { None, Some(MalformedDay), Some(Day3) }

\* datetime.now(): 0001-01-11 00:00 (the default cutoff is then 0001-01-04)
NowValues == { SevenDays + 72 }

NotRun == << "not run" >>

(***************************************************************************)
(* fetch_feeds: the state machine of one call.                             *)
(***************************************************************************)
Pending == [done |-> FALSE, value |-> << >>]

Init ==
    /\ \E k \in 1..MaxFeeds : feeds_cache = Config(k)
    /\ category \in Categories
    /\ responses \in Worlds(Len(ConfiguredUrls(feeds_cache, category)), MaxEntries)
    /\ limit \in Limits
    /\ per_feed_limit \in PerFeedLimits
    /\ since_date \in SinceDates
    /\ pc = "call"
    /\ since_dt = None
    /\ feed_urls = << >>
    /\ feed_results = << >>
    /\ order = << >>
    /\ result = None
    /\ summary_in = << >>
    /\ cleaned = NotRun
    /\ recleaned = NotRun

Return(value) ==
    /\ result' = Some(value)
    /\ pc' = "done"

\* Lines 238-242: since_date does not read as YYYY-mm-dd.
SinceDateError ==
    /\ pc = "call"
    /\ since_date # None
    /\ ParseSinceDate(since_date[1]) = None
    /\ Return(Failure(<< "Parameter 'since_date' must be in YYYY-mm-dd format." >>))
    /\ UNCHANGED << feeds_cache, responses, category, limit, per_feed_limit,
                    since_date, since_dt, feed_urls, feed_results, order >>
    /\ UNCHANGED cleanVars

\* The values since_dt can take at lines 236-240.
SinceDtValues ==
    IF since_date = None THEN { now - SevenDays : now \in NowValues }
    ELSE IF ParseSinceDate(since_date[1]) = None THEN { }
    ELSE { ParseSinceDate(since_date[1])[1] }

\* Lines 244-247: the category has no feed URLs.
NoFeedsError ==
    /\ pc = "call"
    /\ \E dt \in SinceDtValues : since_dt' = Some(dt)
    /\ ConfiguredUrls(feeds_cache, category) = << >>
    /\ Return(Failure(<< "No RSS feeds found for category '", category, "'." >>))
    /\ UNCHANGED << feeds_cache, responses, category, limit, per_feed_limit,
                    since_date, feed_urls, feed_results, order >>
    /\ UNCHANGED cleanVars

\* Lines 236-251: the cutoff is set and one task per feed URL is created.
Dispatch ==
    /\ pc = "call"
    /\ \E dt \in SinceDtValues : since_dt' = Some(dt)
    /\ ConfiguredUrls(feeds_cache, category) # << >>
    /\ feed_urls' = ConfiguredUrls(feeds_cache, category)
    /\ feed_results' = [i \in 1..Len(ConfiguredUrls(feeds_cache, category)) |-> Pending]
    /\ pc' = "gather"
    /\ UNCHANGED << feeds_cache, responses, category, limit, per_feed_limit,
                    since_date, order, result >>
    /\ UNCHANGED cleanVars

\* The task of feed i runs fetch_single_feed to its end.  The tasks complete
\* in any order.
FeedTask(i) ==
    /\ pc = "gather"
    /\ ~feed_results[i].done
    /\ feed_results' =
          [feed_results EXCEPT ![i] =
              [done  |-> TRUE,
               value |-> fetch_single_feed(responses[i], feed_urls[i],
                                           since_dt[1], per_feed_limit)]]
    /\ order' = Append(order, i)
    /\ UNCHANGED << feeds_cache, responses, category, limit, per_feed_limit,
                    since_date, pc, since_dt, feed_urls, result >>
    /\ UNCHANGED cleanVars

\* Lines 254-282: every task is done; gather returns and the articles are
\* combined, sorted, limited and rendered.  With return_exceptions=True the
\* gather raises nothing of the tasks', so line 257 is not reached.
Combine ==
    /\ pc = "gather"
    /\ \A i \in 1..Len(feed_results) : feed_results[i].done
    /\ Return(Success(LimitedArticles(GatherResults(feed_results, order), limit)))
    /\ UNCHANGED << feeds_cache, responses, category, limit, per_feed_limit,
                    since_date, since_dt, feed_urls, feed_results, order >>
    /\ UNCHANGED cleanVars

Next ==
    \/ SinceDateError
    \/ NoFeedsError
    \/ Dispatch
    \/ \E i \in 1..Len(feed_results) : FeedTask(i)
    \/ Combine

Spec == Init /\ [][Next]_vars

(***************************************************************************)
(* clean_summary run twice on one raw summary.                             *)
(***************************************************************************)
Pieces ==
    { <<"&">>, <<"a", "m", "p", ";">>, <<"l", "t", ";">>, <<"<">>, <<">">>,
      <<" ">>, <<"b">>, <<"s", "c", "r", "i", "p", "t">>, << Surrogate >> }

\* The raw summaries made of at most n pieces.
RECURSIVE RawSummaries(_)
RawSummaries(n) ==
    IF n = 0 THEN { << >> }
    ELSE LET shorter == RawSummaries(n - 1)
         IN  shorter \cup { s \o p : s \in shorter, p \in Pieces }

InitClean ==
    /\ summary_in \in RawSummaries(MaxPieces)
    /\ cleaned = NotRun
    /\ recleaned = NotRun
    /\ feeds_cache = Config(1)
    /\ responses = << >>
    /\ category = "Example"
    /\ limit = 20
    /\ per_feed_limit = 5
    /\ since_date = None
    /\ pc = "idle"
    /\ since_dt = None
    /\ feed_urls = << >>
    /\ feed_results = << >>
    /\ order = << >>
    /\ result = None

CleanFirst ==
    /\ cleaned = NotRun
    /\ cleaned' = clean_summary(summary_in)
    /\ UNCHANGED << summary_in, recleaned >>
    /\ UNCHANGED fetchVars

CleanAgain ==
    /\ cleaned # NotRun
    /\ recleaned = NotRun
    /\ recleaned' = clean_summary(cleaned)
    /\ UNCHANGED << summary_in, cleaned >>
    /\ UNCHANGED fetchVars

NextClean == CleanFirst \/ CleanAgain

SpecClean == InitClean /\ [][NextClean]_vars

(***************************************************************************)
(* What the claims speak of.                                               *)
(***************************************************************************)
Done == pc = "done"

Succeeded == Done /\ "articles" \in DOMAIN result[1]

Failed == Done /\ "error" \in DOMAIN result[1]

Returned == result[1].articles

\* parse_date of the published string an article carries.
Renormalized(article) == parse_date(article.published)

\* The index of the feed an article names as its source.
FeedOf(article) == article.source[2]

(***************************************************************************)
(* C1                                                                      *)
(***************************************************************************)
\* C1, as stated: a successful call returns at most `limit` articles and
\* every feed contributes at most `per_feed_limit` articles to the merge,
\* for every integer limit and per_feed_limit.
C1_AnyIntegerLimit ==
    /\ Succeeded => Len(Returned) <= limit
    /\ \A i \in 1..Len(feed_results) :
          feed_results[i].done => Len(feed_results[i].value) <= per_feed_limit

\* C1, amended: a successful call with limit >= 0 returns at most `limit`
\* articles, and with per_feed_limit >= 0 every feed contributes at most
\* `per_feed_limit` articles to the merge.
C1_NonNegativeLimits ==
    /\ (Succeeded /\ limit >= 0) => Len(Returned) <= limit
    /\ \A i \in 1..Len(feed_results) :
          (feed_results[i].done /\ per_feed_limit >= 0)
              => Len(feed_results[i].value) <= per_feed_limit

\* A successful call with positive limits in which one feed had more
\* qualifying entries than per_feed_limit and contributed per_feed_limit of
\* them, and the returned list is as long as limit allows.
C1_Witness ==
    /\ Succeeded
    /\ limit > 0
    /\ per_feed_limit > 0
    /\ Len(Returned) = limit
    /\ \E i \in 1..Len(feed_results) :
          /\ responses[i].outcome = "200"
          /\ Len(Filtered(responses[i].entries, since_dt[1])) > per_feed_limit
          /\ Len(feed_results[i].value) = per_feed_limit

C3_RenormalizedNotBeforeCutoff ==
    (Succeeded /\ since_date # None) =>
        \A i \in 1..Len(Returned) :
            \/ Renormalized(Returned[i]) = None
            \/ Renormalized(Returned[i])[1] >= since_dt[1]

(***************************************************************************)
(* C4                                                                      *)
(***************************************************************************)
\* The response of a feed that answered with no entries.
NoEntries == Response("200", << >>)

\* What the call returns when every failing feed answers with no entries
\* instead.
ArticlesWithFailuresEmptied ==
    LimitedArticles(
        [i \in 1..Len(feed_urls) |->
            fetch_single_feed(
                IF responses[i].outcome = "200" THEN responses[i] ELSE NoEntries,
                Url(i), since_dt[1], per_feed_limit)],
        limit)

\* C4: a call whose parameters are valid returns a success result whatever
\* feeds fail, and its articles are those it returns when each failing feed
\* answers with no entries.
C4_FailureIsEmptyFeed ==
    /\ (Done /\ feed_urls # << >>) => Succeeded
    /\ (Succeeded /\ feed_urls # << >>) => Returned = ArticlesWithFailuresEmptied

\* One feed answered 500 with a body that holds a qualifying entry, its
\* sibling answered 200, and the sibling's article is returned.
C4_Witness ==
    /\ Succeeded
    /\ Len(feed_urls) = 2
    /\ \E i, j \in 1..2 :
          /\ responses[i].outcome = "500"
          /\ Filtered(responses[i].entries, since_dt[1]) # << >>
          /\ responses[j].outcome = "200"
          /\ Len(Returned) = 1
          /\ FeedOf(Returned[1]) = j

(***************************************************************************)
(* C5                                                                      *)
(***************************************************************************)
SinceDateMalformed ==
    since_date # None /\ since_date[1].layout # "%Y-%m-%d"

CategoryHasNoFeeds ==
    category \notin DOMAIN feeds_cache \/ feeds_cache[category] = << >>

BestAvailableDt(entry) ==
    IF entry.published_parsed # None THEN entry.published_parsed
    ELSE IF parse_date(entry.published) # None THEN parse_date(entry.published)
    ELSE IF parse_date(entry.pubDate) # None THEN parse_date(entry.pubDate)
    ELSE parse_date(entry.updated)

\* C6, as stated: an entry is dropped for lack of a date only when it has no
\* native parsed time and none of its text date fields parses; so an entry
\* whose best available date is not before the cutoff is in the feed's
\* result when per_feed_limit does not cut the list.
C6_DroppedOnlyWhenNoFieldParses ==
    \A i \in 1..Len(feed_results) :
        (/\ feed_results[i].done
         /\ responses[i].outcome = "200"
         /\ per_feed_limit >= Len(responses[i].entries))
        => \A k \in 1..Len(responses[i].entries) :
              LET e == responses[i].entries[k]
              IN  (BestAvailableDt(e) # None /\ BestAvailableDt(e)[1] >= since_dt[1])
                  => \E a \in 1..Len(feed_results[i].value) :
                        feed_results[i].value[a].title = e.title

(***************************************************************************)
(* C7                                                                      *)
(***************************************************************************)
\* C7, as stated: clean_summary(clean_summary(x)) = clean_summary(x) for
\* every x without a "<", character references included.
C7_IdempotentWithoutMarkup ==
    (recleaned # NotRun /\ ~Contains(summary_in, "<")) => recleaned = cleaned

\* C7, amended: clean_summary(clean_summary(x)) = clean_summary(x) for every
\* x that has no "<" and no "&" (no markup and no character reference).
C7_IdempotentWithoutMarkupOrReference ==
    (recleaned # NotRun /\ ~Contains(summary_in, "<") /\ ~Contains(summary_in, "&"))
        => recleaned = cleaned

\* A text of four pieces with neither "<" nor "&", with a space and a ">",
\* sanitized twice.
C7_Witness ==
    /\ recleaned # NotRun
    /\ ~Contains(summary_in, "<")
    /\ ~Contains(summary_in, "&")
    /\ Contains(summary_in, " ")
    /\ Contains(summary_in, ">")
    /\ Contains(summary_in, ";")
    /\ recleaned = summary_in

(***************************************************************************)
(* C8                                                                      *)
(***************************************************************************)
\* No two adjacent whitespace characters, none at either end.
Collapsed(s) ==
    /\ s # << >> => (s[1] \notin Whitespace /\ s[Len(s)] \notin Whitespace)
    /\ \A i \in 1..(Len(s) - 1) : ~(s[i] \in Whitespace /\ s[i + 1] \in Whitespace)

\* C8, as stated: the output of clean_summary is trimmed and has its
\* whitespace runs collapsed, on every path.
C8_OutputCollapsedAndTrimmed ==
    cleaned # NotRun => Collapsed(cleaned)

(***************************************************************************)
(* C9                                                                      *)
(***************************************************************************)
\* C9, as stated: every article a feed contributes carries, as its sort
\* instant, the instant its entry was compared against the cutoff with.
C9_SortInstantIsCutoffInstant ==
    \A i \in 1..Len(feed_results) :
        feed_results[i].done =>
            \A a \in 1..Len(feed_results[i].value) :
                \A k \in 1..Len(responses[i].entries) :
                    responses[i].entries[k].title = feed_results[i].value[a].title
                        => feed_results[i].value[a].published_dt
                              = EntryDt(responses[i].entries[k])

(***************************************************************************)
(* C10                                                                     *)
(***************************************************************************)
\* The per-feed results in the configured order of the feed URLs.
ResultsInConfiguredOrder ==
    [i \in 1..Len(feed_urls) |->
        fetch_single_feed(responses[i], Url(i), since_dt[1], per_feed_limit)]

\* The key the global sort gives a returned article.
ReturnedKey(article) ==
    IF Renormalized(article) # None THEN Renormalized(article)[1] ELSE DateMin

\* C10: whatever order the feed tasks complete in, the returned list is the
\* one made from the per-feed results in the configured order of the URLs,
\* and articles of equal sort instant are in the order of their feeds.
C10_CompletionOrderIrrelevant ==
    (Succeeded /\ feed_urls # << >>) =>
        /\ Returned = LimitedArticles(ResultsInConfiguredOrder, limit)
        /\ \A p, q \in 1..Len(Returned) :
              (p < q /\ ReturnedKey(Returned[p]) = ReturnedKey(Returned[q]))
                  => FeedOf(Returned[p]) <= FeedOf(Returned[q])

\* The second feed's task completed before the first feed's, and the two
\* feeds' articles, of equal sort instant, are returned first feed first.
C10_Witness ==
    /\ Succeeded
    /\ order = << 2, 1 >>
    /\ Len(Returned) = 2
    /\ ReturnedKey(Returned[1]) = ReturnedKey(Returned[2])
    /\ FeedOf(Returned[1]) = 1
    /\ FeedOf(Returned[2]) = 2

====
